---- MODULE Spec2Model ----
(***************************************************************************)
(* A model of go_parser's pclntab decoder (src/pclntbl.py) and of the      *)
(* helpers it uses (src/common.py): the memory reader read_mem, the name   *)
(* sanitizer clean_function_name, the install-root extractor get_goroot    *)
(* and the version extractor get_goversion.                                *)
(*                                                                         *)
(* The hosting platform (IDA) is modelled by what the code can observe of  *)
(* it: a byte-addressed memory image, a set of function boundaries, a name *)
(* table, instruction operands of the two runtime routines, and the order  *)
(* of the calls issued to it (mutations, reads, auto_wait barriers).       *)
(*                                                                         *)
(* Numbers read from memory are kept as 8 little-endian bytes, so that a   *)
(* 4-byte read of an 8-byte field is visibly different from an 8-byte one. *)
(***************************************************************************)
EXTENDS Integers, Sequences, FiniteSets, TLC

(***************************************************************************)
(* Bounds of the model.                                                    *)
(***************************************************************************)
\* most function-table pairs of an image
MaxFuncs == 2
\* most path entries of a source-file table
MaxSrc == 2
\* longest byte string handed to the name sanitizer on its own
MaxNameLen == 3

(***************************************************************************)
(* Values and addresses.                                                   *)
(***************************************************************************)
\* addresses from 2^16 on are collapsed: nothing is mapped there
FAR == 256 * 256

Zero8 == <<0, 0, 0, 0, 0, 0, 0, 0>>

Ones(n) == [i \in 1..8 |-> IF i <= n THEN 255 ELSE 0]

\* a small number as n little-endian bytes
LE(x, n) == [i \in 1..n |-> IF i = 1 THEN x % 256 ELSE IF i = 2 THEN (x \div 256) % 256 ELSE 0]

\* a small number as a value
Val(x) == LE(x, 8)

\* value & (2^(8n) - 1)
Mask(v, n) == [i \in 1..8 |-> IF i <= n THEN v[i] ELSE 0]

\* the number a value stands for, when it is used as an address, a count or an offset
ToNat(v) == IF \A i \in 3..8 : v[i] = 0 THEN v[1] + 256 * v[2] ELSE FAR

RECURSIVE Concat(_)
Concat(ss) == IF ss = <<>> THEN <<>> ELSE Head(ss) \o Concat(Tail(ss))

\* all sequences over S of length at most n
BoundedSeq(S, n) == UNION {[1..k -> S] : k \in 0..n}

(***************************************************************************)
(* Text: Python's bytes.decode and the str operations the code uses.       *)
(* A text is a sequence of code points.                                    *)
(***************************************************************************)
IsCont(x) == x >= 128 /\ x <= 191

\* length of the well-formed UTF-8 sequence at the head of b, 0 when there is none
Utf8Len(b) ==
  LET b1 == b[1]
      n == Len(b)
  IN  IF b1 < 128 THEN 1
      ELSE IF b1 >= 194 /\ b1 <= 223 /\ n >= 2 /\ IsCont(b[2]) THEN 2
      ELSE IF /\ b1 >= 224 /\ b1 <= 239 /\ n >= 3 /\ IsCont(b[2]) /\ IsCont(b[3])
              /\ (b1 = 224 => b[2] >= 160) /\ (b1 = 237 => b[2] <= 159) THEN 3
      ELSE IF /\ b1 >= 240 /\ b1 <= 244 /\ n >= 4
              /\ IsCont(b[2]) /\ IsCont(b[3]) /\ IsCont(b[4])
              /\ (b1 = 240 => b[2] >= 144) /\ (b1 = 244 => b[2] <= 143) THEN 4
      ELSE 0

CodePoint(b, n) ==
  IF n = 1 THEN b[1]
  ELSE IF n = 2 THEN (b[1] - 192) * 64 + (b[2] - 128)
  ELSE IF n = 3 THEN (b[1] - 224) * 4096 + (b[2] - 128) * 64 + (b[3] - 128)
  ELSE (b[1] - 240) * 262144 + (b[2] - 128) * 4096 + (b[3] - 128) * 64 + (b[4] - 128)

\* bytes.decode("utf-8", errors="ignore"): the bytes of a malformed sequence are dropped
RECURSIVE DecodeIgnore(_)
DecodeIgnore(b) ==
  IF b = <<>> THEN <<>>
  ELSE LET n == Utf8Len(b)
       IN  IF n = 0 THEN DecodeIgnore(Tail(b))
           ELSE <<CodePoint(b, n)>> \o DecodeIgnore(SubSeq(b, n + 1, Len(b)))

\* bytes.decode() is strict: it raises UnicodeDecodeError on a malformed sequence
RECURSIVE DecodeRaises(_)
DecodeRaises(b) ==
  IF b = <<>> THEN FALSE
  ELSE LET n == Utf8Len(b)
       IN  IF n = 0 THEN TRUE ELSE DecodeRaises(SubSeq(b, n + 1, Len(b)))

\* string.printable: digits, letters, punctuation and the whitespace \t \n \r \x0b \x0c
Printable == (9..13) \cup (32..126)

\* str.replace(c, ''), c one character
RemoveChar(s, c) == SelectSeq(s, LAMBDA x : x # c)

\* str.replace(c, r), c and r one character each
ReplaceChar(s, c, r) == [i \in 1..Len(s) |-> IF s[i] = c THEN r ELSE s[i]]

\* s.startswith(p)
StartsWith(s, p) == Len(p) <= Len(s) /\ SubSeq(s, 1, Len(p)) = p

\* p in s
Contains(s, p) == \E i \in 1..(Len(s) - Len(p) + 1) : SubSeq(s, i, i + Len(p) - 1) = p

\* "(", ")", "[", "]", "{", "}", " ", and the double quote
STRIP_CHARS == <<40, 41, 91, 93, 123, 125, 32, 34>>

\* ".", "*", "-", ",", ";", ":", "/", and "\xb7" (U+00B7, the middle dot)
REPLACE_CHARS == <<46, 42, 45, 44, 59, 58, 47, 183>>

\* the replacement character of line 211
Underscore == 95

RECURSIVE StripAll(_, _)
StripAll(s, cs) == IF cs = <<>> THEN s ELSE StripAll(RemoveChar(s, Head(cs)), Tail(cs))

RECURSIVE ReplaceAll(_, _)
ReplaceAll(s, cs) == IF cs = <<>> THEN s ELSE ReplaceAll(ReplaceChar(s, Head(cs), Underscore), Tail(cs))

\* the filter of line 205: only the characters of string.printable are kept
FilterPrintable(s) == SelectSeq(s, LAMBDA x : x \in Printable)

clean_function_name(name_str) ==
  ReplaceAll(StripAll(FilterPrintable(DecodeIgnore(name_str)), STRIP_CHARS), REPLACE_CHARS)

(***************************************************************************)
(* State.                                                                  *)
(***************************************************************************)
VARIABLES
  \* the host: the program image and the analysis database
  mem,          \* mapped address -> byte
  ADDR_SZ,      \* common.ADDR_SZ: 4, or 8 for a 64-bit database
  BADADDR,      \* idc.BADADDR: all ones, 4 or 8 bytes wide with the host build
  funcs,        \* function boundaries: a set of [start_ea, end_ea)
  names,        \* address -> name (a text)
  drefs,        \* data cross-references to functions
  insns,        \* address -> the decoded instruction there
  flow,         \* the flow chart of the runtime routine under inspection, or NoFlow
  \* the Pclntbl object and the run of Pclntbl.parse
  pclntbl,      \* the fields of the Pclntbl object
  pc,           \* the position of the run
  func_idx,     \* the loop variable of parse_funcs
  idx,          \* the loop variable of parse_srcfile
  records,      \* the FuncStruct objects built so far, with what parse_funcs read for them
  renames,      \* the set_name calls issued on functions and function pointers
  created,      \* the addresses add_func was called on
  started,      \* the phases of Pclntbl.parse entered so far, in order
  exc,          \* the exception that ended the run, or None
  sync,         \* the barrier bookkeeping of the calls issued to the host
  \* get_goversion
  GOVER,        \* common.GOVER
  fc_idx,       \* its loop variable
  \* clean_function_name on its own
  name_str,     \* the argument
  cleaned,      \* the result, or NotYet
  \* FuncStruct.parse on its own, in both modes
  st_addr,      \* the address of the record
  st_live,      \* the result of parse(is_test=False), or NotParsed
  st_test,      \* the result of parse(is_test=True), or NotParsed
  \* read_mem on its own
  rm_addr,      \* the argument addr
  rm_forced,    \* the argument forced_addr_sz (0: not given)
  rm_read_only, \* the argument read_only
  rm_ret        \* the value returned and the calls issued, or NotRead

hostVars == <<mem, ADDR_SZ, BADADDR, drefs, insns, flow>>
dbVars == <<funcs, names>>
runVars == <<pclntbl, pc, func_idx, idx, records, renames, created, started, exc, sync>>
verVars == <<GOVER, fc_idx>>
cleanVars == <<name_str, cleaned>>
stVars == <<st_addr, st_live, st_test>>
readVars == <<rm_addr, rm_forced, rm_read_only, rm_ret>>
vars == <<hostVars, dbVars, runVars, verVars, cleanVars, stVars, readVars>>

\* Python's None, for each kind of value the code tests against it
None == "None"
NoBytes == <<-1>>
NoFuncAt == [start_ea |-> -1, end_ea |-> -1]
NoRename == [ea |-> -1, name |-> <<>>, ok |-> FALSE]
NoFlow == [found |-> FALSE, blocks |-> <<>>]
\* not computed yet
NotYet == <<-1>>
NotParsed == [addr |-> -1]
NotRead == [value |-> <<-1>>, evs |-> <<>>]

(***************************************************************************)
(* The calls issued to the host, in the order the code issues them.        *)
(***************************************************************************)
Ev(op, ea, sz) == [op |-> op, ea |-> ea, sz |-> sz]

\* the calls that create, type or rename a program item
MutatingOps == {"del_items", "create_data", "create_strlit", "create_insn", "add_func", "set_name"}

\* the calls that read program memory or program state
ReadingOps == {"get_wide_byte", "get_wide_word", "get_wide_dword", "get_qword", "get_bytes",
               "get_strlit_contents", "get_func_name", "get_func", "get_name",
               "get_operand_type", "get_operand_value", "print_insn_mnem"}

AutoWait == Ev("auto_wait", 0, 0)

IsMutation(e) == e.op \in MutatingOps
IsRead(e) == e.op \in ReadingOps

\* sync.dirty: a mutation was issued and no auto_wait since;
\* sync.stale: some read was issued while dirty; sync.at: the first such read.
\* Among the mutations, barriers and reads of evs, the first read issued while dirty
\* comes right after a mutation, or comes first when the run was dirty already.
IssueAll(s, rel) ==
  LET marked == [i \in 1..Len(rel) |->
                   [e |-> rel[i],
                    bad |-> IsRead(rel[i]) /\ (IF i = 1 THEN s.dirty ELSE IsMutation(rel[i - 1]))]]
      others == SelectSeq(rel, LAMBDA e : ~IsRead(e))
  IN  CHOOSE r \in {[dirty |-> IF others = <<>> THEN s.dirty ELSE IsMutation(others[Len(others)]),
                     stale |-> s.stale \/ bad # <<>>,
                     at |-> IF ~s.stale /\ bad # <<>> THEN bad[1].e ELSE s.at] :
                      bad \in {SelectSeq(marked, LAMBDA m : m.bad)}} : TRUE

\* the bookkeeping after the calls evs are issued in state s
Issue(s, evs) ==
  CHOOSE r \in {IssueAll(s, rel) :
                  rel \in {SelectSeq(evs, LAMBDA e : e.op = "auto_wait" \/ IsMutation(e) \/ IsRead(e))}} :
    TRUE

Synced == [dirty |-> FALSE, stale |-> FALSE, at |-> Ev("none", 0, 0)]

\* the layout of the images of the model: where the table lies, the code addresses
\* of the two functions its records speak of, and the offsets of the pieces
Layout == [base |-> 256, e0 |-> 4096, e1 |-> 4104, srctab |-> 256, gopair |-> 432,
           gostr |-> 448, gostr2 |-> 452, zeropair |-> 464, size |-> 480, out |-> 60000]
ImageBase == Layout.base

\* every image of the model maps the same range of addresses
Mapped(a) == a >= ImageBase /\ a < ImageBase + Layout.size

(***************************************************************************)
(* Reads of the program image.                                             *)
(***************************************************************************)
\* a byte of the image; the host answers all ones where nothing is mapped
Byte(a) == IF Mapped(a) THEN mem[a] ELSE 255

\* the n bytes at a, as a value
GetBytes(a, n) == [i \in 1..8 |-> IF i <= n THEN Byte(a + i - 1) ELSE 0]

\* what is stored at a in a field n bytes wide
Stored(a, n) == GetBytes(a, n)

RECURSIVE CString(_)
CString(a) == IF ~Mapped(a) \/ mem[a] = 0 THEN <<>> ELSE <<mem[a]>> \o CString(a + 1)

\* idc.get_strlit_contents(a): the bytes up to the NUL, None (NoBytes) where there is no string
get_strlit_contents(a) == IF Mapped(a) THEN CString(a) ELSE NoBytes

\* idc.get_bytes(a, n): the n bytes at a, None (NoBytes) unless all of them are mapped
get_bytes(a, n) ==
  IF Mapped(a) /\ Mapped(a + n - 1) THEN [i \in 1..n |-> mem[a + i - 1]] ELSE NoBytes

ReadOp(w) == IF w = 2 THEN "get_wide_word" ELSE IF w = 4 THEN "get_wide_dword" ELSE "get_qword"

\* the width read_mem reads for forced_addr_sz = forced (0: not given)
ReadWidth(forced) ==
  IF forced = 2 THEN 2
  ELSE IF forced = 4 \/ ADDR_SZ = 4 THEN 4
  ELSE 8

\* common.read_mem: the value returned and the calls issued
read_mem(addr, forced, read_only) ==
  LET w == ReadWidth(forced)
      value == GetBytes(addr, w)
      undef == IF read_only THEN <<>>
               ELSE <<Ev("del_items", addr, IF forced # 0 THEN forced ELSE ADDR_SZ), AutoWait>>
      typed == IF read_only THEN <<>> ELSE <<Ev("create_data", addr, w), AutoWait>>
  IN  [value |-> IF value = BADADDR THEN Zero8 ELSE value,
       evs |-> undef \o typed \o <<Ev(ReadOp(w), addr, w)>>]

(***************************************************************************)
(* Program images.  An image is laid out from a few choices (a scenario);  *)
(* every image is one a binary can hold.  All offsets are from start_addr. *)
(***************************************************************************)
\* Pclntbl.MAGIC, 0xFFFFFFFB
MAGIC == <<251, 255, 255, 255, 0, 0, 0, 0>>


Take(bs, n) == SubSeq(bs, 1, n)

Place(a, bs) == [x \in a..(a + Len(bs) - 1) |-> bs[x - a + 1]]

E0 == Layout.e0
E1 == Layout.e1
\* 0x1_0000_1000: an entry address above 4 GiB
EHI == <<0, 16, 0, 0, 1, 0, 0, 0>>

\* offsets of the two function records and of their name strings
RecOff(j) == 128 + 48 * j
NameOff(j) == 224 + 16 * j
SrcTabOff == Layout.srctab
PathOff(k) == 288 + 16 * (k - 1)
GorootPairOff == Layout.gopair
GorootStrOff == Layout.gostr
GorootStr2Off == Layout.gostr2
ZeroPairOff == Layout.zeropair
ImageSize == Layout.size
\* an offset that leads out of the image
OutOff == Layout.out

T_main_foo == <<109, 97, 105, 110, 46, 102, 111, 111>>       \* main.foo
T_a_middot_b == <<97, 194, 183, 98>>                          \* a(U+00B7)b
T_stripped == <<40, 32, 41>>                                  \* "( )"
T_root == <<47, 114>>                                         \* /r
T_root_bs == <<92, 114>>                                      \* \r with a backslash
T_sub == <<115, 117, 98, 95>>                                 \* sub_
T_off == <<111, 102, 102, 95>>                                \* off_
T_ptr == <<95, 112, 116, 114>>                                \* _ptr
T_runtime_symtab == <<114, 117, 110, 116, 105, 109, 101, 95, 115, 121, 109, 116, 97, 98>>
T_funcs_entry == <<102, 117, 110, 99, 115, 95, 101, 110, 116, 114, 121>>
T_pc0 == <<112, 99, 48>>
T_runtime_filetab == <<114, 117, 110, 116, 105, 109, 101, 95, 102, 105, 108, 101, 116, 97, 98>>
T_pkg == <<47, 112, 107, 103, 47>>                            \* /pkg/
T_autogenerated == <<60, 97, 117, 116, 111, 103, 101, 110, 101, 114, 97, 116, 101, 100, 62>>
T_cgo == <<95, 99, 103, 111, 95>>                             \* _cgo_
T_vendor == <<103, 111, 47, 115, 114, 99, 47, 103, 105, 116>> \* go/src/git
T_go == <<103, 111>>                                          \* go

\* the paths a source-file table of the model may hold; kind 0 is an offset out of the image
PathText(k) ==
  CASE k = 1 -> <<47, 114, 47, 102, 46, 103, 111>>                             \* /r/f.go
    [] k = 2 -> <<47, 117, 47, 109, 46, 103, 111>>                             \* /u/m.go
    [] k = 3 -> <<47, 117, 47, 112, 107, 103, 47, 120>>                        \* /u/pkg/x
    [] k = 4 -> T_autogenerated
    [] k = 5 -> <<47, 117, 47, 95, 99, 103, 111, 95, 120>>                     \* /u/_cgo_x
    [] k = 6 -> <<47, 103, 111, 47, 115, 114, 99, 47, 103, 105, 116, 47, 120>> \* /go/src/git/x
    [] k = 7 -> <<>>                                                           \* the empty string
    [] k = 8 -> <<47, 255>>                                                    \* not UTF-8
PathKinds == 0..8

\* the name string of record 1; kind 4 is a name offset out of the image
NameText(nm) ==
  CASE nm = 1 -> T_a_middot_b
    [] nm = 2 -> T_stripped
    [] nm = 3 -> <<>>
    [] nm = 4 -> <<>>
NameKinds == 1..4

\* one function record: the entry, then eight 4-byte fields
RecBytes(j, p, nm) ==
  LE(IF j = 0 THEN E0 ELSE E1, p)
  \o LE(IF j = 1 /\ nm = 4 THEN OutOff ELSE NameOff(j), 4)
  \o LE(8 * j, 4) \o LE(16 + 16 * j, 4) \o LE(1 + 10 * j, 4) \o LE(2 + 10 * j, 4)
  \o LE(3 + 10 * j, 4) \o LE(4 + 10 * j, 4) \o LE(5 + 10 * j, 4)

PairBytes(pr, p) == Take(pr.entry, p) \o LE(pr.off, p)

SrcEntry(k) == LE(IF k = 0 THEN OutOff ELSE PathOff(k), 4)

Image(sc) ==
  LET B == ImageBase
      p == sc.p
      n == Len(sc.pairs)
      table == sc.hdr \o LE(n, p)
               \o Concat([i \in 1..n |-> PairBytes(sc.pairs[i], p)])
               \o LE(E1 + 8, p) \o LE(SrcTabOff, 4)
      srctab == LE(Len(sc.src) + 1, 4)
                \o Concat([i \in 1..Len(sc.src) |-> SrcEntry(sc.src[i])])
  IN  Place(B, table)
      @@ Place(B + RecOff(0), RecBytes(0, p, sc.nm))
      @@ Place(B + RecOff(1), RecBytes(1, p, sc.nm))
      @@ Place(B + NameOff(0), T_main_foo)
      @@ Place(B + NameOff(1), NameText(sc.nm))
      @@ Place(B + SrcTabOff, srctab)
      @@ Place(B + PathOff(1), PathText(1)) @@ Place(B + PathOff(2), PathText(2))
      @@ Place(B + PathOff(3), PathText(3)) @@ Place(B + PathOff(4), PathText(4))
      @@ Place(B + PathOff(5), PathText(5)) @@ Place(B + PathOff(6), PathText(6))
      @@ Place(B + PathOff(8), PathText(8))
      @@ Place(B + GorootPairOff, LE(B + GorootStrOff, sc.asz) \o LE(2, sc.asz))
      @@ Place(B + GorootStrOff, T_root)
      @@ Place(B + GorootStr2Off, T_root_bs)
      @@ [x \in B..(B + ImageSize - 1) |-> 0]

(***************************************************************************)
(* The code of runtime_GOROOT in the images of the model.  An instruction  *)
(* is known by its mnemonic and its two operands (type and value); the     *)
(* operand types are IDA's: 1 register, 2 direct memory, 4 displacement,   *)
(* 5 immediate.                                                            *)
(***************************************************************************)
Insn(mnem, t0, v0, t1, v1) == [mnem |-> mnem, t0 |-> t0, v0 |-> v0, t1 |-> t1, v1 |-> v1]

Block(s, e, ty) == [start_ea |-> s, end_ea |-> e, type |-> ty]

CodeBase == Layout.e0 + 4096

\* three blocks: the entry, the "false" return and the "true" return
GorootFlow == <<Block(CodeBase, CodeBase + 4, "normal"),
                Block(CodeBase + 4, CodeBase + 8, "fcb_ret"),
                Block(CodeBase + 8, CodeBase + 16, "fcb_ret")>>

GorootEntry == (CodeBase :> Insn("sub", 1, 0, 5, 40))
               @@ (CodeBase + 4 :> Insn("mov", 4, 0, 1, 0))
               @@ (CodeBase + 6 :> Insn("retn", 0, 0, 0, 0))
               @@ (CodeBase + 14 :> Insn("retn", 0, 0, 0, 0))

GorootKinds == {"none", "indirect", "immediate", "noshape", "zerolen", "zeropair",
                "nocand", "nextblock"}

\* the "true" return block of each kind
GorootInsns(g, asz) ==
  LET T == CodeBase + 8
      pair == ImageBase + GorootPairOff
      movmem(a) == Insn("mov", 1, 0, 2, a)
      store == Insn("mov", 4, 0, 1, 0)
      storeimm(x) == Insn("mov", 4, 0, 5, x)
  IN  GorootEntry @@
      CASE g = "indirect" ->
             (T :> movmem(pair)) @@ (T + 2 :> movmem(pair + asz)) @@ (T + 4 :> store)
        [] g = "zeropair" ->
             (T :> movmem(ImageBase + ZeroPairOff)) @@ (T + 2 :> movmem(ImageBase + ZeroPairOff + asz))
             @@ (T + 4 :> store)
        [] g = "immediate" ->
             (T :> Insn("lea", 1, 0, 2, ImageBase + GorootStr2Off)) @@ (T + 2 :> store)
             @@ (T + 4 :> storeimm(2))
        [] g = "zerolen" ->
             (T :> Insn("lea", 1, 0, 2, ImageBase + GorootStr2Off)) @@ (T + 2 :> store)
             @@ (T + 4 :> storeimm(0))
        [] g = "noshape" ->
             (T :> movmem(pair)) @@ (T + 2 :> store)
        [] g = "nextblock" ->
             (T :> movmem(pair)) @@ (T + 2 :> store) @@ (T + 8 :> storeimm(2))
        [] g = "nocand" ->
             (T :> store) @@ (T + 2 :> storeimm(2))
        [] OTHER -> (T :> store)

\* data references to the two functions: one from a read-only slot still named off_...,
\* one from a writable slot, one from a read-only slot that was named by hand
DataRefs == {[to |-> E0, frm |-> 12288, rodata |-> TRUE],
             [to |-> E0, frm |-> 12296, rodata |-> FALSE],
             [to |-> E1, frm |-> 12304, rodata |-> TRUE]}

DataNames == (12288 :> T_off) @@ (12296 :> T_off) @@ (12304 :> T_ptr)

(***************************************************************************)
(* The scenarios of the model.                                             *)
(***************************************************************************)
Hdr(b5, q, p) == <<251, 255, 255, 255, b5, 0, q, p>>

\* a good header is Hdr(0, q, p) with q in {1, 2, 4} and p in {4, 8}
BadHeaders == {<<250, 255, 255, 255, 0, 0, 1, 8>>, Hdr(1, 1, 8), Hdr(0, 3, 8), Hdr(0, 0, 8),
               Hdr(0, 1, 2), Hdr(0, 1, 0), Hdr(0, 3, 2)}

Pair(e, o) == [entry |-> e, off |-> o]

\* the pairs a function table of the model is made of
PairKinds(p) ==
  {Pair(Val(E0), RecOff(0)), Pair(Val(E1), RecOff(1)), Pair(Val(E0), RecOff(1)), Pair(Ones(p), RecOff(1))}
  \cup (IF p = 8 THEN {Pair(EHI, RecOff(0))} ELSE {})

\* the host builds: a 32-bit database under a 32-bit or a 64-bit host, a 64-bit database
Hosts == {<<4, 4>>, <<4, 8>>, <<8, 8>>}

\* a scenario: the header, the pointer size the table is laid out with, its pairs, the
\* name of record 1, the source-file entries, the shape of runtime_GOROOT, the host
\* build, whether a function is known at E0 already, whether the database holds the
\* data references
Scn(hdr, p, pairs, nm, src, gr, host, f0, xr) ==
  [hdr |-> hdr, p |-> p, pairs |-> pairs, nm |-> nm, src |-> src, gr |-> gr,
   asz |-> host[1], bad |-> host[2], f0 |-> f0, xr |-> xr]

\* the host builds a table with pointer size p is decoded under: for 4, the two widths of
\* BADADDR; for 8, the two values of ADDR_SZ
TableHosts(p) == IF p = 4 THEN {<<4, 4>>, <<4, 8>>} ELSE {<<4, 8>>, <<8, 8>>}

Scenarios ==
  \* bad headers
  {Scn(h, 8, <<Pair(Val(E0), RecOff(0))>>, 1, <<2>>, "indirect", <<8, 8>>, f0, TRUE) :
      h \in BadHeaders, f0 \in BOOLEAN}
  \* function tables
  \cup UNION {{Scn(Hdr(0, 1, p), p, prs, 1, <<>>, "none", host, f0, FALSE) :
                   prs \in BoundedSeq(PairKinds(p), MaxFuncs), host \in TableHosts(p),
                   f0 \in BOOLEAN} :
              p \in {4, 8}}
  \* names and instruction quanta
  \cup {Scn(Hdr(0, q, p), p, <<Pair(Val(E1), RecOff(1))>>, nm, <<2>>, "immediate", <<p, 8>>, f0, TRUE) :
           q \in {1, 2, 4}, p \in {4, 8}, nm \in NameKinds, f0 \in BOOLEAN}
  \* install roots and source-file tables
  \cup {Scn(Hdr(0, 1, 8), 8, <<Pair(Val(E0), RecOff(0))>>, 1, src, gr, host, TRUE, TRUE) :
           src \in BoundedSeq(PathKinds, MaxSrc), gr \in {"none", "indirect"},
           host \in {<<8, 8>>}}
  \cup {Scn(Hdr(0, 1, 8), 8, <<Pair(Val(E0), RecOff(0))>>, 1, <<1, 2>>, gr, host, TRUE, TRUE) :
           gr \in GorootKinds, host \in {<<4, 8>>, <<8, 8>>}}

NewPclntbl(start_addr) ==
  [start_addr |-> start_addr, goroot |-> <<>>, min_lc |-> 0, ptr_sz |-> 0, func_num |-> 0,
   func_tbl_addr |-> FAR, func_tbl_sz |-> 0, end_pc |-> 0, srcfile_tbl_addr |-> FAR,
   srcfile_num |-> 0, srcfiles |-> <<>>]

\* the parts of the state a specification does not use
IdleRun ==
  /\ pclntbl = NewPclntbl(ImageBase) /\ pc = "idle" /\ func_idx = 0 /\ idx = 0
  /\ records = <<>> /\ renames = <<>> /\ created = <<>> /\ started = <<>> /\ exc = None
  /\ sync = Synced
IdleVer == GOVER = <<>> /\ fc_idx = 0
IdleClean == name_str = <<>> /\ cleaned = NotYet
IdleSt == st_addr = 0 /\ st_live = NotParsed /\ st_test = NotParsed
IdleRead == rm_addr = 0 /\ rm_forced = 0 /\ rm_read_only = FALSE /\ rm_ret = NotRead

HostOf(sc) ==
  /\ mem = Image(sc)
  /\ ADDR_SZ = sc.asz
  /\ BADADDR = Ones(sc.bad)
  /\ funcs = IF sc.f0 THEN {[start_ea |-> E0, end_ea |-> E0 + 16]} ELSE {}
  /\ names = (IF sc.f0 THEN (E0 :> T_sub) ELSE <<>>) @@ DataNames
  /\ drefs = IF sc.xr THEN DataRefs ELSE {}
  /\ insns = IF sc.gr = "none" THEN <<>> ELSE GorootInsns(sc.gr, sc.asz)
  /\ flow = IF sc.gr = "none" THEN NoFlow ELSE [found |-> TRUE, blocks |-> GorootFlow]

Init ==
  /\ \E sc \in Scenarios : HostOf(sc)
  /\ pclntbl = NewPclntbl(ImageBase) /\ pc = "parse_hdr" /\ func_idx = 0 /\ idx = 0
  /\ records = <<>> /\ renames = <<>> /\ created = <<>> /\ started = <<>> /\ exc = None
  /\ sync = Synced
  /\ IdleVer /\ IdleClean /\ IdleSt /\ IdleRead

(***************************************************************************)
(* The analysis database.                                                  *)
(***************************************************************************)
\* idaapi.get_func(ea): the function ea lies in, or None (NoFuncAt)
get_func(fs, ea) ==
  IF \E f \in fs : f.start_ea <= ea /\ ea < f.end_ea
  THEN CHOOSE f \in fs : f.start_ea <= ea /\ ea < f.end_ea
  ELSE NoFuncAt

\* idc.get_func_name(ea): the name of the function ea lies in, or the empty string
get_func_name(fs, nms, ea) ==
  LET f == get_func(fs, ea)
  IN  IF f = NoFuncAt THEN <<>> ELSE nms[f.start_ea]

\* an address the host can make code and a function at
IsCodeAddr(ea) == ea >= Layout.e0 /\ ea < CodeBase + 4096

(***************************************************************************)
(* Pclntbl.parse_hdr                                                       *)
(***************************************************************************)
InvalidMagic(magic) == magic # MAGIC

InvalidReserved(v) == v # Zero8

InvalidMinLc(min_lc) == (min_lc # 1) /\ (min_lc # 2) /\ (min_lc # 4)

\* the pointer-size check that lets every size through
InvalidPtrSz_Off(ptr_sz) == FALSE

InvalidPtrSz(ptr_sz) == (ptr_sz # 4) /\ (ptr_sz # 8)

(***************************************************************************)
(* Pclntbl.parse: the order of the calls                                   *)
(***************************************************************************)
\* the calls with the last two exchanged: the source files before the function pointers
PhaseAfter_SrcfileFirst(phase) ==
  CASE phase = "parse_hdr" -> "parse_funcs"
    [] phase = "parse_funcs" -> "get_goroot"
    [] phase = "get_goroot" -> "parse_srcfile"
    [] phase = "parse_srcfile" -> "parse_func_pointer"
    [] phase = "parse_func_pointer" -> "done"

\* lines 172-177: what Pclntbl.parse calls when a call has returned
PhaseAfter(phase) ==
  CASE phase = "parse_hdr" -> "parse_funcs"
    [] phase = "parse_funcs" -> "get_goroot"
    [] phase = "get_goroot" -> "parse_func_pointer"
    [] phase = "parse_func_pointer" -> "parse_srcfile"
    [] phase = "parse_srcfile" -> "done"

parse_hdr ==
  /\ pc = "parse_hdr"
  /\ started' = Append(started, "parse_hdr")
  /\ LET S == pclntbl.start_addr
         magic == Mask(GetBytes(S, 4), 4)
         reserved == Mask(GetBytes(S + 4, 2), 2)
         min_lc == Byte(S + 6)
         ptr_sz == Byte(S + 7)
         e1 == <<Ev("get_wide_dword", S, 4)>>
         e2 == e1 \o <<Ev("create_data", S, 4), Ev("set_cmt", S, 0), Ev("set_name", S, 0),
                       AutoWait, Ev("get_wide_word", S + 4, 2)>>
         e3 == e2 \o <<Ev("create_data", S + 4, 2), Ev("get_wide_byte", S + 6, 1)>>
         e4 == e3 \o <<Ev("set_cmt", S + 6, 0), AutoWait, Ev("get_wide_byte", S + 7, 1)>>
         e5 == e4 \o <<Ev("set_cmt", S + 7, 0), AutoWait>>
         labelled == (S :> T_runtime_symtab) @@ names
     IN  IF InvalidMagic(magic)
         THEN \* idc.qexit(1): the host process ends
              /\ pc' = "qexit" /\ exc' = None /\ sync' = Issue(sync, e1)
              /\ UNCHANGED <<pclntbl, names>>
         ELSE IF InvalidReserved(reserved)
         THEN /\ pc' = "raised" /\ exc' = "Invalid pclntbl header" /\ sync' = Issue(sync, e2)
              /\ names' = labelled /\ UNCHANGED pclntbl
         ELSE IF InvalidMinLc(min_lc)
         THEN /\ pc' = "raised" /\ exc' = "Invalid pclntbl minimum LC!" /\ sync' = Issue(sync, e3)
              /\ names' = labelled /\ pclntbl' = [pclntbl EXCEPT !.min_lc = min_lc]
         ELSE IF InvalidPtrSz(ptr_sz)
         THEN /\ pc' = "raised" /\ exc' = "Invalid pclntbl pointer size!" /\ sync' = Issue(sync, e4)
              /\ names' = labelled
              /\ pclntbl' = [pclntbl EXCEPT !.min_lc = min_lc, !.ptr_sz = ptr_sz]
         ELSE /\ pc' = PhaseAfter("parse_hdr") /\ exc' = None /\ sync' = Issue(sync, e5)
              /\ names' = labelled
              /\ pclntbl' = [pclntbl EXCEPT !.min_lc = min_lc, !.ptr_sz = ptr_sz]
  /\ UNCHANGED <<hostVars, funcs, func_idx, idx, records, renames, created>>
  /\ UNCHANGED <<verVars, cleanVars, stVars, readVars>>

(***************************************************************************)
(* FuncStruct.parse                                                        *)
(***************************************************************************)
\* the field read that forgets the mode and always types what it reads
FieldRead_Live(addr, ptr_sz, k, is_test) == read_mem(addr + ptr_sz + 4 * k, 4, FALSE)

FieldRead(addr, ptr_sz, k, is_test) == read_mem(addr + ptr_sz + 4 * k, 4, is_test)

\* the name taken from the string at the address of the name field itself
StructName_AtNameField(addr, ptr_sz, start_addr, is_test) ==
  LET raw_name_str == get_strlit_contents(addr + ptr_sz)
  IN  IF raw_name_str # NoBytes /\ Len(raw_name_str) > 0
      THEN clean_function_name(raw_name_str) ELSE <<>>

\* lines 237-241: the name of the record at addr, sanitized; empty when there is none
StructName(addr, ptr_sz, start_addr, is_test) ==
  LET raw_name_str == get_strlit_contents(ToNat(read_mem(addr + ptr_sz, 4, is_test).value) + start_addr)
  IN  IF raw_name_str # NoBytes /\ Len(raw_name_str) > 0
      THEN clean_function_name(raw_name_str) ELSE <<>>

\* FuncStruct.parse(is_test) of the record at addr, in a database with the functions fs;
\* lit_ok and name_ok are the host's answers to create_strlit and set_name.
\* The result holds the fields of the object, the rename issued (or NoRename) and the calls.
FuncStructParsed(addr, ptr_sz, start_addr, is_test, fs, lit_ok, name_ok, name) ==
  LET r_entry == read_mem(addr, ptr_sz, is_test)
      func_addr == ToNat(r_entry.value)
      r_name == read_mem(addr + ptr_sz, 4, is_test)
      name_addr == ToNat(r_name.value) + start_addr
      raw_name_str == get_strlit_contents(name_addr)
      real_func_addr == get_func(fs, func_addr)
      does_rename == ~is_test /\ Len(name) > 0 /\ real_func_addr # NoFuncAt
      e_head == r_entry.evs \o r_name.evs \o <<Ev("get_strlit_contents", name_addr, 0)>>
      e_live1 ==
        IF is_test THEN <<>>
        ELSE <<Ev("set_cmt", addr, 0), AutoWait, Ev("set_cmt", addr + ptr_sz, 0), AutoWait>>
             \o (IF Len(name) > 0
                 THEN <<Ev("create_strlit", name_addr, Len(raw_name_str) + 1)>>
                      \o (IF lit_ok THEN <<AutoWait>> ELSE <<>>)
                 ELSE <<>>)
             \o <<Ev("get_func", func_addr, 0)>>
             \o (IF does_rename
                 THEN <<Ev("set_name", real_func_addr.start_ea, 0)>>
                      \o (IF name_ok THEN <<AutoWait>> ELSE <<>>)
                 ELSE <<>>)
      f(k) == FieldRead(addr, ptr_sz, k, is_test)
      e_fields == f(1).evs \o f(2).evs \o f(3).evs \o f(4).evs \o f(5).evs \o f(6).evs \o f(7).evs
      e_live2 ==
        IF is_test THEN <<>>
        ELSE [k \in 1..7 |-> Ev("set_cmt", addr + ptr_sz + 4 * k, 0)] \o <<AutoWait>>
  IN  [addr |-> addr, name |-> name,
       args |-> f(1).value, frame |-> f(2).value, pcsp |-> f(3).value, pcfile |-> f(4).value,
       pcln |-> f(5).value, nfuncdata |-> f(6).value, npcdata |-> f(7).value,
       func_addr |-> func_addr, name_addr |-> name_addr,
       rename |-> IF does_rename
                  THEN [ea |-> real_func_addr.start_ea, name |-> name, ok |-> name_ok]
                  ELSE NoRename,
       evs |-> e_head \o e_live1 \o e_fields \o e_live2]

FuncStructParse(addr, ptr_sz, start_addr, is_test, fs, lit_ok, name_ok) ==
  CHOOSE st \in {FuncStructParsed(addr, ptr_sz, start_addr, is_test, fs, lit_ok, name_ok, name) :
                   name \in {StructName(addr, ptr_sz, start_addr, is_test)}} : TRUE

(***************************************************************************)
(* Pclntbl.parse_funcs                                                     *)
(***************************************************************************)
\* lines 96-106: the function count and the labels of the table
parse_funcs ==
  /\ pc = "parse_funcs"
  /\ started' = Append(started, "parse_funcs")
  /\ LET S == pclntbl.start_addr
         ptr_sz == pclntbl.ptr_sz
         r == read_mem(S + 8, ptr_sz, FALSE)
         func_num == ToNat(r.value)
         funcs_entry == S + 8
         func_tbl_addr == funcs_entry + ptr_sz
     IN  /\ pclntbl' = [pclntbl EXCEPT !.func_num = func_num,
                                       !.func_tbl_sz = func_num * 2 * ptr_sz,
                                       !.func_tbl_addr = func_tbl_addr]
         /\ names' = (funcs_entry :> T_funcs_entry) @@ (func_tbl_addr :> T_pc0) @@ names
         /\ sync' = Issue(sync, r.evs \o <<Ev("set_cmt", funcs_entry, 0), Ev("set_name", funcs_entry, 0),
                                           AutoWait, Ev("set_name", func_tbl_addr, 0), AutoWait>>)
  /\ func_idx' = 0
  /\ pc' = "parse_funcs_loop"
  /\ UNCHANGED <<hostVars, funcs, idx, records, renames, created, exc>>
  /\ UNCHANGED <<verVars, cleanVars, stVars, readVars>>

\* lines 112-120: the calls that make a function at func_addr, unknown so far
MakeFunction(func_addr, add_ok) ==
  <<Ev("del_items", func_addr, 0), AutoWait, Ev("create_insn", func_addr, 0), AutoWait,
    Ev("add_func", func_addr, 0)>> \o (IF add_ok THEN <<AutoWait>> ELSE <<>>)

\* lines 108-130: one turn of the loop.  The host answers add_func (add_ok, only
\* asked where no function is known, and granted only on code), create_strlit
\* (lit_ok) and set_name (name_ok).
parse_funcs_loop ==
  /\ pc = "parse_funcs_loop"
  /\ func_idx < pclntbl.func_num
  /\ LET S == pclntbl.start_addr
         ptr_sz == pclntbl.ptr_sz
         curr_addr == pclntbl.func_tbl_addr + func_idx * 2 * ptr_sz
     IN  \E r_addr \in {read_mem(curr_addr, ptr_sz, FALSE)},
            r_off \in {read_mem(curr_addr + ptr_sz, ptr_sz, FALSE)} :
         \E func_addr \in {ToNat(r_addr.value)},
            name_addr \in {S + ptr_sz + ToNat(r_off.value)} :
         \E unknown \in {get_func_name(funcs, names, func_addr) = <<>>},
            func_st_addr \in {name_addr - ptr_sz} :
         \E add_ok \in IF unknown /\ IsCodeAddr(func_addr) THEN BOOLEAN ELSE {FALSE} :
         \E fs \in {IF add_ok THEN funcs \cup {[start_ea |-> func_addr, end_ea |-> func_addr + 1]}
                    ELSE funcs},
            nms \in {IF add_ok THEN (func_addr :> T_sub) @@ names ELSE names} :
         \E lit_ok, name_ok \in BOOLEAN :
         \E func_st \in {FuncStructParse(func_st_addr, ptr_sz, S, FALSE, fs, lit_ok, name_ok)} :
         \E rn \in {func_st.rename} :
           \* an answer of the host counts only where the call is made
           /\ (func_st.name = <<>> => lit_ok)
           /\ (rn = NoRename => name_ok)
           /\ funcs' = fs
           /\ names' = IF rn # NoRename /\ rn.ok THEN (rn.ea :> rn.name) @@ nms ELSE nms
           /\ created' = IF unknown THEN Append(created, [ea |-> func_addr, ok |-> add_ok])
                         ELSE created
           /\ renames' = IF rn # NoRename THEN Append(renames, rn @@ [pair |-> func_idx])
                         ELSE renames
           /\ records' = Append(records,
                                [func_st EXCEPT !.evs = <<>>]
                                @@ [entry_address |-> r_addr.value, name_offset |-> r_off.value])
           /\ sync' = Issue(sync, r_addr.evs \o <<Ev("get_func_name", func_addr, 0)>>
                                  \o (IF unknown THEN MakeFunction(func_addr, add_ok) ELSE <<>>)
                                  \o r_off.evs \o func_st.evs
                                  \o <<Ev("set_cmt", curr_addr + ptr_sz, 0), AutoWait>>)
  /\ func_idx' = func_idx + 1
  /\ UNCHANGED <<hostVars, pclntbl, pc, idx, started, exc>>
  /\ UNCHANGED <<verVars, cleanVars, stVars, readVars>>

\* the loop is over; line 174 of Pclntbl.parse
parse_funcs_end ==
  /\ pc = "parse_funcs_loop"
  /\ func_idx >= pclntbl.func_num
  /\ sync' = Issue(sync, <<AutoWait>>)
  /\ pc' = PhaseAfter("parse_funcs")
  /\ UNCHANGED <<hostVars, dbVars, pclntbl, func_idx, idx, records, renames, created, started, exc>>
  /\ UNCHANGED <<verVars, cleanVars, stVars, readVars>>

(***************************************************************************)
(* common.get_goroot                                                       *)
(***************************************************************************)
\* common.find_ret_cb: the indexes of the return blocks, in flow-chart order
find_ret_cb(blocks) == SelectSeq([i \in 1..Len(blocks) |-> i], LAMBDA i : blocks[i].type = "fcb_ret")

\* idc.find_code(ea, SEARCH_DOWN): the next instruction after ea, BADADDR when there is none
find_code(ea) ==
  LET after == {a \in DOMAIN insns : a > ea}
  IN  IF after = {} THEN FAR ELSE CHOOSE a \in after : \A b \in after : a <= b

\* line 130: the block is used when the first operand of its first instruction has type 1
IsCandidateBlock(blk) == insns[blk.start_ea].t0 = 1

\* lines 153-168: the scan for the length, from curr_addr while curr_addr <= end_addr
RECURSIVE ScanLength(_, _, _)
ScanLength(curr_addr, end_addr, goroot_path_addr_val) ==
  IF ~(curr_addr <= end_addr)
  THEN [addr |-> 0, len |-> 0, evs |-> <<>>, seen |-> {}]
  ELSE LET len_optype == insns[curr_addr].t1
           look == <<Ev("get_operand_type", curr_addr, 1)>>
       IN  IF len_optype = 2
           THEN LET ra == read_mem(goroot_path_addr_val, 0, FALSE)
                    rl == read_mem(goroot_path_addr_val + ADDR_SZ, 0, FALSE)
                IN  [addr |-> ToNat(ra.value), len |-> ToNat(rl.value),
                     evs |-> look \o ra.evs \o rl.evs, seen |-> {curr_addr}]
           ELSE IF len_optype = 5
           THEN [addr |-> goroot_path_addr_val, len |-> insns[curr_addr].v1,
                 evs |-> look \o <<Ev("get_operand_value", curr_addr, 1)>>, seen |-> {curr_addr}]
           ELSE LET rest == ScanLength(find_code(curr_addr), end_addr, goroot_path_addr_val)
                IN  [rest EXCEPT !.evs = look \o rest.evs, !.seen = rest.seen \cup {curr_addr}]

\* common.get_goroot: the string returned or the exception raised, and the calls
GetGoroot ==
  LET blocks == flow.blocks
      ret_cbs == find_ret_cb(blocks)
      cands == SelectSeq(ret_cbs, LAMBDA i : IsCandidateBlock(blocks[i]))
      find == <<Ev("get_func_name", 0, 0)>>
      none == [raised |-> FALSE, exc |-> None, str |-> <<>>, seen |-> {}, blk |-> 0, addr |-> 0, len |-> 0]
  IN  IF ~flow.found THEN none @@ [evs |-> find]
      ELSE IF cands = <<>>
      THEN none @@ [evs |-> find \o [k \in 1..Len(ret_cbs) |->
                                       Ev("get_operand_type", blocks[ret_cbs[k]].start_ea, 0)]]
      ELSE LET blk == blocks[cands[1]]
               tried == SelectSeq(ret_cbs, LAMBDA i : i <= cands[1])
               e0 == find \o [k \in 1..Len(tried) |-> Ev("get_operand_type", blocks[tried[k]].start_ea, 0)]
                     \o <<Ev("get_operand_value", blk.start_ea, 1)>>
               sc == ScanLength(find_code(blk.start_ea), blk.end_ea, insns[blk.start_ea].v1)
               bytes == get_bytes(sc.addr, sc.len)
               goroot_path_str == DecodeIgnore(bytes)
               e1 == e0 \o sc.evs
               e2 == e1 \o <<Ev("get_bytes", sc.addr, sc.len)>>
               \* the block chosen at line 130 and the values of lines 158-165
               used == [blk |-> cands[1], addr |-> sc.addr, len |-> sc.len, seen |-> sc.seen]
           IN  IF sc.len = 0 \/ sc.addr = 0
               THEN used @@ [raised |-> TRUE, exc |-> "Invalid GOROOT Address ang Length", str |-> <<>>,
                             evs |-> e1]
               ELSE IF bytes = NoBytes
               THEN used @@ [raised |-> TRUE, exc |-> "AttributeError", str |-> <<>>, evs |-> e2]
               ELSE IF Len(goroot_path_str) = 0
               THEN used @@ [raised |-> TRUE, exc |-> "Invalid GOROOT", str |-> <<>>, evs |-> e2]
               ELSE used @@ [raised |-> FALSE, exc |-> None, str |-> ReplaceChar(goroot_path_str, 92, 47),
                             evs |-> e2 \o <<Ev("create_strlit", sc.addr, sc.len), AutoWait>>]

\* line 175 of Pclntbl.parse: self.goroot = common.get_goroot(), with no handler around it
get_goroot ==
  /\ pc = "get_goroot"
  /\ started' = Append(started, "get_goroot")
  /\ \E g \in {GetGoroot} :
       /\ sync' = Issue(sync, g.evs)
       /\ IF g.raised
          THEN pc' = "raised" /\ exc' = g.exc /\ UNCHANGED pclntbl
          ELSE pc' = PhaseAfter("get_goroot") /\ exc' = None
               /\ pclntbl' = [pclntbl EXCEPT !.goroot = g.str]
  /\ UNCHANGED <<hostVars, dbVars, func_idx, idx, records, renames, created>>
  /\ UNCHANGED <<verVars, cleanVars, stVars, readVars>>

(***************************************************************************)
(* parse_func_pointer                                                      *)
(***************************************************************************)
\* the elements of a set of data references, by the address they come from
RECURSIVE ByFrom(_)
ByFrom(ds) ==
  IF ds = {} THEN <<>>
  ELSE LET d == CHOOSE x \in ds : \A y \in ds : x.frm <= y.frm
       IN  <<d>> \o ByFrom(ds \ {d})

\* lines 305-307: the references that get a name
PointerRefs(fs, nms) ==
  {d \in drefs : /\ \E f \in fs : f.start_ea = d.to
                 /\ d.rodata
                 /\ Contains(nms[d.frm], T_off)}

parse_func_pointer ==
  /\ pc = "parse_func_pointer"
  /\ started' = Append(started, "parse_func_pointer")
  /\ \E refs \in {ByFrom(PointerRefs(funcs, names))} :
     \E ok \in SUBSET {d.frm : d \in PointerRefs(funcs, names)} :
       /\ names' = [a \in DOMAIN names |->
                      IF a \in ok
                      THEN LET d == CHOOSE x \in drefs : x.frm = a
                           IN  names[d.to] \o T_ptr
                      ELSE names[a]]
       /\ renames' = renames \o [k \in 1..Len(refs) |->
                                   [ea |-> refs[k].frm, name |-> names[refs[k].to] \o T_ptr,
                                    ok |-> refs[k].frm \in ok, pair |-> -1]]
       /\ sync' = Issue(sync, Concat([k \in 1..Len(refs) |->
                                        <<Ev("get_func_name", refs[k].to, 0), Ev("get_name", refs[k].frm, 0),
                                          Ev("set_name", refs[k].frm, 0)>>
                                        \o (IF refs[k].frm \in ok THEN <<AutoWait>> ELSE <<>>)]))
  /\ pc' = PhaseAfter("parse_func_pointer")
  /\ UNCHANGED <<hostVars, funcs, pclntbl, func_idx, idx, records, created, exc>>
  /\ UNCHANGED <<verVars, cleanVars, stVars, readVars>>

(***************************************************************************)
(* Pclntbl.parse_srcfile                                                   *)
(***************************************************************************)
\* line 155: the paths that are not listed
IsLibraryPath(srcfile_path, goroot) ==
  Len(goroot) > 0 /\ (\/ StartsWith(srcfile_path, goroot)
                      \/ Contains(srcfile_path, T_pkg)
                      \/ srcfile_path = T_autogenerated
                      \/ Contains(srcfile_path, T_cgo)
                      \/ Contains(srcfile_path, T_vendor))

\* lines 136-143: the address of the table and the number of its entries
parse_srcfile ==
  /\ pc = "parse_srcfile"
  /\ started' = Append(started, "parse_srcfile")
  /\ LET S == pclntbl.start_addr
         off_addr == pclntbl.func_tbl_addr + pclntbl.func_tbl_sz + pclntbl.ptr_sz
     IN  \E r_off \in {read_mem(off_addr, 4, FALSE)} :
         \E srcfile_tbl_addr \in {S + ToNat(Mask(r_off.value, 4))} :
         \E r_num \in {read_mem(srcfile_tbl_addr, 4, FALSE)} :
           /\ pclntbl' = [pclntbl EXCEPT !.srcfile_tbl_addr = srcfile_tbl_addr,
                                         !.srcfile_num = ToNat(Mask(r_num.value, 4)) - 1]
           /\ names' = (srcfile_tbl_addr :> T_runtime_filetab) @@ names
           /\ sync' = Issue(sync, r_off.evs \o <<Ev("set_cmt", off_addr, 0),
                                                 Ev("set_name", srcfile_tbl_addr, 0), AutoWait>>
                                  \o r_num.evs)
  /\ idx' = 0
  /\ pc' = "parse_srcfile_loop"
  /\ UNCHANGED <<hostVars, funcs, func_idx, records, renames, created, exc>>
  /\ UNCHANGED <<verVars, cleanVars, stVars, readVars>>

\* lines 146-168: one turn of the loop
parse_srcfile_loop ==
  /\ pc = "parse_srcfile_loop"
  /\ idx < pclntbl.srcfile_num
  /\ LET S == pclntbl.start_addr
         slot == (idx + 1) * 4 + pclntbl.srcfile_tbl_addr
     IN  \E r \in {read_mem(slot, 4, FALSE)} :
         \E srcfile_addr \in {S + ToNat(Mask(r.value, 4))} :
         \E raw \in {get_strlit_contents(srcfile_addr)} :
         \E e_read \in {r.evs \o <<Ev("get_strlit_contents", srcfile_addr, 0)>>} :
           IF raw = NoBytes
           THEN \* line 149: None has no decode
                /\ pc' = "raised" /\ exc' = "AttributeError"
                /\ sync' = Issue(sync, e_read)
                /\ UNCHANGED <<pclntbl, idx>>
           ELSE IF DecodeRaises(raw)
           THEN /\ pc' = "raised" /\ exc' = "UnicodeDecodeError"
                /\ sync' = Issue(sync, e_read)
                /\ UNCHANGED <<pclntbl, idx>>
           ELSE \E srcfile_path \in {DecodeIgnore(raw)} :
                  /\ pc' = pc /\ exc' = exc /\ idx' = idx + 1
                  /\ IF Len(srcfile_path) = 0
                     THEN sync' = Issue(sync, e_read) /\ UNCHANGED pclntbl
                     ELSE /\ pclntbl' =
                               IF IsLibraryPath(srcfile_path, pclntbl.goroot) THEN pclntbl
                               ELSE [pclntbl EXCEPT !.srcfiles = Append(@, srcfile_path)]
                          /\ sync' = Issue(sync, e_read
                                            \o <<Ev("create_strlit", srcfile_addr, Len(srcfile_path) + 1),
                                                 AutoWait, Ev("set_cmt", slot, 0),
                                                 Ev("add_dref", slot, 0), AutoWait>>)
  /\ UNCHANGED <<hostVars, dbVars, func_idx, records, renames, created, started>>
  /\ UNCHANGED <<verVars, cleanVars, stVars, readVars>>

\* the loop is over: Pclntbl.parse returns
parse_srcfile_end ==
  /\ pc = "parse_srcfile_loop"
  /\ idx >= pclntbl.srcfile_num
  /\ pc' = PhaseAfter("parse_srcfile")
  /\ UNCHANGED <<hostVars, dbVars, pclntbl, func_idx, idx, records, renames, created, started, exc, sync>>
  /\ UNCHANGED <<verVars, cleanVars, stVars, readVars>>

Next ==
  \/ parse_hdr
  \/ parse_funcs
  \/ parse_funcs_loop
  \/ parse_funcs_end
  \/ get_goroot
  \/ parse_func_pointer
  \/ parse_srcfile
  \/ parse_srcfile_loop
  \/ parse_srcfile_end

Spec == Init /\ [][Next]_vars

(***************************************************************************)
(* clean_function_name on its own                                          *)
(***************************************************************************)
\* the bytes of the inputs: "(", a space, the double quote, ".", "/", "a", "_", and the
\* two bytes of U+00B7 in UTF-8
NameBytes == {40, 32, 34, 46, 47, 97, 95, 194, 183}

\* a fixed host for the specifications that read no table
PlainHost ==
  Scn(Hdr(0, 1, 8), 8, <<Pair(Val(E0), RecOff(0))>>, 1, <<2>>, "none", <<8, 8>>, TRUE, TRUE)

InitClean ==
  /\ HostOf(PlainHost)
  /\ name_str \in BoundedSeq(NameBytes, MaxNameLen)
  /\ cleaned = NotYet
  /\ IdleRun /\ IdleVer /\ IdleSt /\ IdleRead

\* one call of clean_function_name(name_str)
clean_name ==
  /\ cleaned = NotYet
  /\ cleaned' = clean_function_name(name_str)
  /\ UNCHANGED <<hostVars, dbVars, runVars, verVars, name_str, stVars, readVars>>

NextClean == clean_name

SpecClean == InitClean /\ [][NextClean]_vars

(***************************************************************************)
(* FuncStruct.parse on its own, with is_test=True and with is_test=False   *)
(***************************************************************************)
\* the tables the records are taken from
StructScenarios ==
  {Scn(Hdr(0, 1, p), p, <<Pair(Val(E0), RecOff(0)), Pair(Val(E1), RecOff(1))>>, nm, <<2>>, "none",
       host, f0, TRUE) : p \in {4, 8}, nm \in NameKinds, host \in Hosts, f0 \in BOOLEAN}

InitStruct ==
  /\ \E sc \in StructScenarios :
       /\ HostOf(sc)
       /\ pclntbl = [NewPclntbl(ImageBase) EXCEPT !.min_lc = 1, !.ptr_sz = sc.p]
  /\ st_addr \in {ImageBase + RecOff(0), ImageBase + RecOff(1)}
  /\ st_live = NotParsed /\ st_test = NotParsed
  /\ pc = "FuncStruct" /\ func_idx = 0 /\ idx = 0
  /\ records = <<>> /\ renames = <<>> /\ created = <<>> /\ started = <<>> /\ exc = None
  /\ sync = Synced
  /\ IdleVer /\ IdleClean /\ IdleRead

\* FuncStruct(st_addr, pclntbl).parse(is_test); the result is kept with the calls issued
\* and with whether the name table changed
StructParse(is_test, lit_ok, name_ok) ==
  \E st \in {FuncStructParse(st_addr, pclntbl.ptr_sz, pclntbl.start_addr, is_test, funcs,
                             lit_ok, name_ok)} :
  \E rn \in {st.rename} :
    /\ (st.name = <<>> => lit_ok)
    /\ (rn = NoRename => name_ok)
    /\ names' = IF rn # NoRename /\ rn.ok THEN (rn.ea :> rn.name) @@ names ELSE names
    /\ renames' = IF rn # NoRename THEN Append(renames, rn @@ [pair |-> -1]) ELSE renames
    /\ sync' = Issue(sync, st.evs)
    /\ IF is_test
       THEN st_test' = st @@ [renamed |-> names' # names] /\ UNCHANGED st_live
       ELSE st_live' = st @@ [renamed |-> names' # names] /\ UNCHANGED st_test
    /\ UNCHANGED <<hostVars, funcs, pclntbl, pc, func_idx, idx, records, created, started, exc>>
    /\ UNCHANGED <<verVars, cleanVars, st_addr, readVars>>

parse_is_test ==
  /\ pc = "FuncStruct" /\ st_test = NotParsed
  /\ StructParse(TRUE, TRUE, TRUE)

parse_live ==
  /\ pc = "FuncStruct" /\ st_live = NotParsed
  /\ \E lit_ok, name_ok \in BOOLEAN : StructParse(FALSE, lit_ok, name_ok)

NextStruct == parse_is_test \/ parse_live

SpecStruct == InitStruct /\ [][NextStruct]_vars

(***************************************************************************)
(* common.get_goversion                                                    *)
(***************************************************************************)
\* the strings the images hold for runtime_schedinit: the text, the length stored beside
\* the pointer, and whether the pointer leads out of the image
VerCase(text, len, out) == [text |-> text, len |-> len, out |-> out]

T_go1_9_7 == <<103, 111, 49, 46, 57, 46, 55>>                 \* go1.9.7
T_go1_4 == <<103, 111, 49, 46, 52>>                           \* go1.4
T_go1_12_17 == <<103, 111, 49, 46, 49, 50, 46, 49, 55>>       \* go1.12.17
T_go1_12_170 == <<103, 111, 49, 46, 49, 50, 46, 49, 55, 48>>  \* go1.12.170
T_xx1_9_7 == <<120, 120, 49, 46, 57, 46, 55>>                 \* xx1.9.7
T_go_bad == <<103, 111, 255, 46, 57, 46, 55>>                 \* go, then a byte that is no UTF-8

VerCases == <<VerCase(T_go1_9_7, 7, FALSE), VerCase(T_go1_4, 4, FALSE),
              VerCase(T_go1_12_170, 10, FALSE), VerCase(T_xx1_9_7, 7, FALSE),
              VerCase(T_go1_4, 5, FALSE), VerCase(T_go1_12_17, 9, FALSE),
              VerCase(T_go_bad, 7, FALSE), VerCase(T_go1_9_7, 7, TRUE)>>

\* offsets of the (pointer, length) pair of case j and of its string
VerPairOff(j) == 16 * (j - 1)
VerStrOff(j) == 128 + 16 * (j - 1)

VerImage(asz) ==
  LET B == ImageBase
      pair(j) == Place(B + VerPairOff(j),
                       LE(IF VerCases[j].out THEN OutOff ELSE B + VerStrOff(j), asz)
                       \o LE(VerCases[j].len, asz))
      str(j) == Place(B + VerStrOff(j), VerCases[j].text)
  IN  pair(1) @@ pair(2) @@ pair(3) @@ pair(4) @@ pair(5) @@ pair(6) @@ pair(7) @@ pair(8)
      @@ str(1) @@ str(2) @@ str(3) @@ str(4) @@ str(5) @@ str(6) @@ str(7) @@ str(8)
      @@ [x \in B..(B + ImageSize - 1) |-> 0]

\* the first instruction of a block of runtime_schedinit: kind j in 1..8 stores 7 to the
\* length of case j; the three kinds after them are a call, a store of 7 to a register
\* and a store of 9 to the length of case 1
VerBlockKinds == 1..(Len(VerCases) + 3)

VerInsn(k, asz) ==
  IF k = Len(VerCases) + 1 THEN Insn("call", 7, E0, 0, 0)
  ELSE IF k = Len(VerCases) + 2 THEN Insn("mov", 1, 0, 5, 7)
  ELSE IF k = Len(VerCases) + 3 THEN Insn("mov", 2, ImageBase + VerPairOff(1) + asz, 5, 9)
  ELSE Insn("mov", 2, ImageBase + VerPairOff(k) + asz, 5, 7)

VerBlockAt(i) == Block(CodeBase + 16 * (i - 1), CodeBase + 16 * i, "normal")

\* most blocks of runtime_schedinit
MaxBlocks == 2

InitVer ==
  /\ \E host \in {<<4, 8>>, <<8, 8>>}, ks \in BoundedSeq(VerBlockKinds, MaxBlocks), known \in BOOLEAN :
       /\ mem = VerImage(host[1])
       /\ ADDR_SZ = host[1]
       /\ BADADDR = Ones(host[2])
       /\ funcs = {} /\ names = <<>> /\ drefs = {}
       /\ (~known => ks = <<>>)
       /\ insns = [a \in {VerBlockAt(i).start_ea : i \in 1..Len(ks)} |->
                     VerInsn(ks[(a - CodeBase) \div 16 + 1], host[1])]
       /\ flow = IF known THEN [found |-> TRUE, blocks |-> [i \in 1..Len(ks) |-> VerBlockAt(i)]]
                 ELSE NoFlow
  /\ pclntbl = NewPclntbl(ImageBase) /\ pc = "get_goversion" /\ func_idx = 0 /\ idx = 0
  /\ records = <<>> /\ renames = <<>> /\ created = <<>> /\ started = <<>> /\ exc = None
  /\ sync = Synced
  /\ IdleVer /\ IdleClean /\ IdleSt /\ IdleRead

\* lines 230-231: the pattern "mov <direct memory>, 7"
IsVersionStore(ins) == ins.mnem = "mov" /\ ins.t0 = 2 /\ ins.v1 = 7

\* line 240
LenInRange(len) == len >= 5 /\ len < 10

\* lines 227-253: one block; lit_ok is the host's answer to create_strlit, and lit the
\* address create_strlit was called on (-1: not called)
GoversionBlock(fc, lit_ok) ==
  LET ea == fc.start_ea
      ins == insns[ea]
      possible_goversion_len_addr == ins.v0
      r_ptr == read_mem(possible_goversion_len_addr - ADDR_SZ, 0, FALSE)
      r_len == read_mem(possible_goversion_len_addr, 0, FALSE)
      str_addr == ToNat(r_ptr.value)
      len == ToNat(r_len.value)
      bytes == get_bytes(str_addr, len)
      goversion_str == DecodeIgnore(bytes)
      e0 == <<Ev("print_insn_mnem", ea, 0)>>
            \o (IF ins.mnem = "mov" THEN <<Ev("get_operand_type", ea, 0)>> ELSE <<>>)
            \o (IF ins.mnem = "mov" /\ ins.t0 = 2 THEN <<Ev("get_operand_value", ea, 1)>> ELSE <<>>)
      e1 == e0 \o <<Ev("get_operand_value", ea, 0)>> \o r_ptr.evs \o r_len.evs
      e2 == e1 \o <<Ev("create_strlit", str_addr, len)>>
      e3 == e2 \o <<AutoWait, Ev("get_bytes", str_addr, len)>>
      same == [raised |-> FALSE, exc |-> None, GOVER |-> GOVER]
      lit == [lit |-> str_addr]
  IN  IF ~IsVersionStore(ins) THEN same @@ [evs |-> e0, lit |-> -1]
      ELSE IF ~LenInRange(len) THEN same @@ [evs |-> e1, lit |-> -1]
      ELSE IF ~lit_ok THEN same @@ [evs |-> e2] @@ lit
      ELSE IF bytes = NoBytes
      THEN [raised |-> TRUE, exc |-> "AttributeError", GOVER |-> GOVER, evs |-> e3] @@ lit
      ELSE IF DecodeRaises(bytes)
      THEN [raised |-> TRUE, exc |-> "UnicodeDecodeError", GOVER |-> GOVER, evs |-> e3] @@ lit
      ELSE IF StartsWith(goversion_str, T_go)
      THEN [raised |-> FALSE, exc |-> None, GOVER |-> SubSeq(goversion_str, 3, Len(goversion_str)),
            evs |-> e3] @@ lit
      ELSE same @@ [evs |-> e3] @@ lit

\* lines 218-221: runtime_schedinit is not known
get_goversion_unknown ==
  /\ pc = "get_goversion" /\ ~flow.found
  /\ pc' = "done"
  /\ sync' = Issue(sync, <<Ev("get_func_name", 0, 0)>>)
  /\ UNCHANGED <<hostVars, dbVars, pclntbl, func_idx, idx, records, renames, created, started, exc>>
  /\ UNCHANGED <<verVars, cleanVars, stVars, readVars>>

\* one turn of the loop of line 226; create_strlit fails where nothing is mapped
get_goversion_block ==
  /\ pc = "get_goversion" /\ flow.found
  /\ fc_idx < Len(flow.blocks)
  /\ \E lit_ok \in BOOLEAN :
     \E b \in {GoversionBlock(flow.blocks[fc_idx + 1], lit_ok)} :
       /\ (lit_ok => b.lit # -1 /\ Mapped(b.lit))
       /\ sync' = Issue(sync, b.evs)
       /\ GOVER' = b.GOVER
       /\ IF b.raised
          THEN pc' = "raised" /\ exc' = b.exc /\ UNCHANGED fc_idx
          ELSE pc' = pc /\ exc' = exc /\ fc_idx' = fc_idx + 1
  /\ UNCHANGED <<hostVars, dbVars, pclntbl, func_idx, idx, records, renames, created, started>>
  /\ UNCHANGED <<cleanVars, stVars, readVars>>

\* the loop is over: get_goversion returns
get_goversion_end ==
  /\ pc = "get_goversion" /\ flow.found
  /\ fc_idx >= Len(flow.blocks)
  /\ pc' = "done"
  /\ UNCHANGED <<hostVars, dbVars, pclntbl, func_idx, idx, records, renames, created, started, exc, sync>>
  /\ UNCHANGED <<verVars, cleanVars, stVars, readVars>>

NextVer == get_goversion_unknown \/ get_goversion_block \/ get_goversion_end

SpecVer == InitVer /\ [][NextVer]_vars

(***************************************************************************)
(* common.read_mem on its own: every forced_addr_sz, both modes, under     *)
(* each host build, on the fields of a table and on an unmapped address    *)
(***************************************************************************)
\* a table of one pair under each host build; the address is that of the magic, of the
\* function count, of the pair's entry or of its name offset, or lies outside the image;
\* forced_addr_sz is 2, 4, 8 or not given (0)
InitRead ==
  /\ \E p \in {4, 8} : \E pr \in PairKinds(p), host \in Hosts :
       /\ HostOf(Scn(Hdr(0, 1, p), p, <<pr>>, 1, <<2>>, "none", host, TRUE, FALSE))
       /\ rm_addr \in {ImageBase, ImageBase + 8, ImageBase + 8 + p, ImageBase + 8 + 2 * p, Layout.out}
  /\ rm_forced \in {0, 2, 4, 8}
  /\ rm_read_only \in BOOLEAN
  /\ rm_ret = NotRead
  /\ IdleRun /\ IdleVer /\ IdleClean /\ IdleSt

\* one call of read_mem(rm_addr, rm_forced, rm_read_only)
read_mem_call ==
  /\ rm_ret = NotRead
  /\ \E r \in {read_mem(rm_addr, rm_forced, rm_read_only)} :
       /\ rm_ret' = r
       /\ sync' = Issue(sync, r.evs)
  /\ UNCHANGED <<hostVars, dbVars, pclntbl, pc, func_idx, idx, records, renames, created, started, exc>>
  /\ UNCHANGED <<verVars, cleanVars, stVars, rm_addr, rm_forced, rm_read_only>>

NextRead == read_mem_call

SpecRead == InitRead /\ [][NextRead]_vars

(***************************************************************************)
(* What the image holds, read from mem alone: the header fields, the pairs *)
(* of the function table and the entries of the source-file table.         *)
(***************************************************************************)
InSeq(x, s) == \E i \in 1..Len(s) : s[i] = x

\* one of the four format errors of the header
BadFormat ==
  LET S == ImageBase
  IN  \/ Stored(S, 4) # MAGIC
      \/ Stored(S + 4, 2) # Zero8
      \/ Byte(S + 6) \notin {1, 2, 4}
      \/ Byte(S + 7) \notin {4, 8}

\* the pointer size and the function count of the header, the address of pair i (from 1)
HdrPtrSz == Byte(ImageBase + 7)
HdrFuncCount == ToNat(Stored(ImageBase + 8, HdrPtrSz))
PairAddr(i) == ImageBase + 8 + HdrPtrSz + (i - 1) * 2 * HdrPtrSz

\* the run is past parse_funcs
FuncsDecoded == InSeq("parse_funcs", started) /\ pc # "parse_funcs_loop"

\* C1: when the header has one of the four format errors, the run ends in parse_hdr
\* (the process exits or the exception leaves Pclntbl.parse): no later phase is ever
\* started, no function record is built, no function is created and none renamed.
C1_FormatErrorAborts ==
  (BadFormat /\ pc # "parse_hdr")
    => /\ pc \in {"qexit", "raised"}
       /\ started = <<"parse_hdr">>
       /\ records = <<>> /\ created = <<>> /\ renames = <<>>

\* a header with a bad pointer size was met, and the run ended on it
C1_Witness ==
  /\ BadFormat /\ Byte(ImageBase + 7) \notin {4, 8}
  /\ pc = "raised" /\ exc = "Invalid pclntbl pointer size!"

\* C2: for a table whose function count is N, parse_funcs builds exactly N records, in
\* table order, and record i holds the pointer-sized entry address and name offset
\* stored in pair i of the table.
C2_RecordsVerbatim ==
  (~BadFormat /\ FuncsDecoded)
    => /\ Len(records) = HdrFuncCount
       /\ \A i \in 1..Len(records) :
            /\ records[i].entry_address = Stored(PairAddr(i), HdrPtrSz)
            /\ records[i].name_offset = Stored(PairAddr(i) + HdrPtrSz, HdrPtrSz)

\* the table is decoded and every pair was recorded as stored
C2_Witness ==
  /\ ~BadFormat /\ FuncsDecoded /\ Len(records) = MaxFuncs
  /\ \A i \in 1..Len(records) : records[i].entry_address = Stored(PairAddr(i), HdrPtrSz)

\* the decoded path of entry i (from 1) of the source-file table
EntryPath(i) ==
  DecodeIgnore(CString(ImageBase + ToNat(Stored(pclntbl.srcfile_tbl_addr + 4 * i, 4))))

\* the number of entries: the count stored at the head of the table, less one
EntryCount == ToNat(Stored(pclntbl.srcfile_tbl_addr, 4)) - 1

EntryPaths == [i \in 1..EntryCount |-> EntryPath(i)]

\* the exclusions as the claim states them: only the prefix test asks for a known root
ClaimedExcluded(path, install_root) ==
  \/ (install_root # <<>> /\ StartsWith(path, install_root))
  \/ Contains(path, T_pkg)
  \/ path = T_autogenerated
  \/ Contains(path, T_cgo)
  \/ Contains(path, T_vendor)

\* the exclusions as line 155 applies them: all five tests ask for a known root
GatedExcluded(path, install_root) ==
  /\ install_root # <<>>
  /\ \/ StartsWith(path, install_root)
     \/ Contains(path, T_pkg)
     \/ path = T_autogenerated
     \/ Contains(path, T_cgo)
     \/ Contains(path, T_vendor)

\* C3, as stated: after parse_srcfile, source_files is the subsequence of the non-empty
\* decoded paths that neither start with a non-empty install_root nor contain "/pkg/",
\* "_cgo_" or the vendor marker nor equal "<autogenerated>", whatever install_root is.
C3_Claimed ==
  pc = "done"
    => pclntbl.srcfiles
         = SelectSeq(EntryPaths, LAMBDA path : path # <<>> /\ ~ClaimedExcluded(path, pclntbl.goroot))

\* a run without install root listed a "/pkg/" path
C3_Witness ==
  /\ pc = "done" /\ pclntbl.goroot = <<>>
  /\ \E i \in 1..Len(pclntbl.srcfiles) : Contains(pclntbl.srcfiles[i], T_pkg)

StripSet == {STRIP_CHARS[i] : i \in DOMAIN STRIP_CHARS}
ReplaceSet == {REPLACE_CHARS[i] : i \in DOMAIN REPLACE_CHARS}

\* the sanitizer of the contract: of the decoded characters, those to strip and the
\* unprintable ones are dropped, and each of those to replace becomes one "_" in place
ClaimedClean(b) ==
  LET kept == SelectSeq(DecodeIgnore(b),
                        LAMBDA c : c \in ReplaceSet \/ (c \in Printable /\ c \notin StripSet))
  IN  [i \in 1..Len(kept) |-> IF kept[i] \in ReplaceSet THEN Underscore ELSE kept[i]]

\* C4: the output of clean_function_name holds none of ( ) [ ] { } " and space; every
\* . * - , ; : / and U+00B7 of the input is one "_" of the output, at the same place among
\* the characters that are kept; and a second call on the same input gives the same output.
C4_Claimed ==
  cleaned # NotYet
    => /\ \A i \in 1..Len(cleaned) : cleaned[i] \notin StripSet
       /\ cleaned = ClaimedClean(name_str)
       /\ cleaned = clean_function_name(name_str)

\* the sanitizer was handed "a", U+00B7 and gave "a"
C4_Witness == name_str = <<97, 194, 183>> /\ cleaned = <<97>>

\* a step of parse_funcs that handles one pair of the table
PairStep == pc = "parse_funcs_loop" /\ func_idx' = func_idx + 1

\* the renames the step issues
Issued == {renames'[k] : k \in (Len(renames) + 1)..Len(renames')}

\* the sanitized string at address a; empty where there is no string
SanitizedAt(a) == IF Mapped(a) THEN clean_function_name(CString(a)) ELSE <<>>

\* C5, as stated: the name of a pair is the string at name_address = start_address +
\* pointer_size + name_offset; when it is non-empty after sanitizing and a function
\* starts at the pair's entry address, that function carries the sanitized name after
\* the pair is handled; when it is empty no rename is issued for the pair.
C5_Claimed ==
  [][PairStep =>
       LET rec == records'[Len(records')]
           entry_address == ToNat(Stored(PairAddr(func_idx + 1), HdrPtrSz))
           name_address == ImageBase + HdrPtrSz
                           + ToNat(Stored(PairAddr(func_idx + 1) + HdrPtrSz, HdrPtrSz))
           name == SanitizedAt(name_address)
       IN  /\ rec.name = name
           /\ (name # <<>> /\ \E f \in funcs' : f.start_ea = entry_address)
                => names'[entry_address] = name
           /\ (name = <<>> => Issued = {})]_vars

\* C5, amended: name_address holds a 4-byte offset, and the name of a pair is the string
\* at start_address + that offset; when it is non-empty after sanitizing and some function
\* contains the entry address read from the record at name_address - pointer_size, exactly
\* one rename is issued for the pair, of the start of that function to the sanitized name,
\* and the function carries the name when the host accepts the rename; otherwise no
\* rename is issued for the pair.
C5_Amended ==
  [][PairStep =>
       \A rec \in {records'[Len(records')]} :
       \A name_address \in {ImageBase + HdrPtrSz + ToNat(rec.name_offset)} :
       \A name \in {SanitizedAt(ImageBase + ToNat(Stored(name_address, 4)))} :
       \A entry \in {ToNat(read_mem(name_address - HdrPtrSz, HdrPtrSz, TRUE).value)} :
       \A target \in {{f \in funcs' : f.start_ea <= entry /\ entry < f.end_ea}} :
       \A issued \in {Issued} :
         /\ rec.name = name
         /\ IF name # <<>> /\ target # {}
            THEN /\ Cardinality(issued) = 1
                 /\ \A r \in issued :
                      /\ r.name = name /\ r.pair = func_idx
                      /\ \E f \in target : r.ea = f.start_ea
                      /\ (r.ok => names'[r.ea] = name)
            ELSE issued = {}]_vars

\* a pair was handled, and its function now carries its sanitized name
C5_Witness ==
  /\ \E k \in 1..Len(renames) :
       /\ renames[k].pair >= 0 /\ renames[k].ok
       /\ renames[k].name # <<>> /\ names[renames[k].ea] = renames[k].name
  /\ Len(records) >= 1

\* the extraction of the install root was run and failed its validation
GorootInvalid ==
  InSeq("get_goroot", started) /\ GetGoroot.exc = "Invalid GOROOT Address ang Length"

\* C6: when the extraction of the install root fails its validation, the error is caught
\* in Pclntbl.parse: install_root stays empty and the run goes on to parse_func_pointer
\* and parse_srcfile.
C6_ExtractionErrorCaught ==
  GorootInvalid
    => /\ pc # "raised" /\ pclntbl.goroot = <<>>
       /\ (pc = "done" => InSeq("parse_func_pointer", started) /\ InSeq("parse_srcfile", started))

\* the validation error of the extraction ended the run
C6_Witness ==
  /\ GorootInvalid /\ pc = "raised" /\ exc = "Invalid GOROOT Address ang Length"
  /\ ~InSeq("parse_func_pointer", started) /\ ~InSeq("parse_srcfile", started)

\* the address entry i of the source-file table resolves to
EntryAddr(i) == ImageBase + ToNat(Stored(pclntbl.srcfile_tbl_addr + 4 * i, 4))

\* C7: when the host returns no string for an entry of the source-file table, the entry
\* is skipped and the run goes on: every later entry is read and classified, and at the
\* end source_files holds every includable path of the entries that have a string.
C7_DecodeFailureSkipped ==
  (/\ InSeq("parse_srcfile", started)
   /\ \E i \in 1..EntryCount : ~Mapped(EntryAddr(i))
   /\ \A i \in 1..EntryCount : ~DecodeRaises(CString(EntryAddr(i))))
    => /\ pc # "raised"
       /\ pc = "done"
            => pclntbl.srcfiles
                 = SelectSeq(EntryPaths,
                             LAMBDA path : path # <<>> /\ ~GatedExcluded(path, pclntbl.goroot))

\* an entry without a string ended the run while another entry was still to be read
C7_Witness ==
  /\ InSeq("parse_srcfile", started) /\ pc = "raised" /\ exc = "AttributeError"
  /\ ~Mapped(EntryAddr(idx + 1)) /\ idx + 1 < EntryCount

\* the reads of program memory among the calls
MemReads(evs) ==
  SelectSeq(evs, LAMBDA e : e.op \in {"get_wide_word", "get_wide_dword", "get_qword",
                                      "get_strlit_contents"})

StructFields(st) ==
  <<st.name, st.args, st.frame, st.pcsp, st.pcfile, st.pcln, st.nfuncdata, st.npcdata>>

\* C8: FuncStruct.parse(is_test=True) issues no call that deletes, creates, comments or
\* renames an item and leaves the name table as it was; it reads the same addresses with
\* the same widths in the same order as parse(is_test=False) of the same record, and
\* yields the same name, args, frame, pcsp, pcfile, pcln, nfuncdata and npcdata.
C8_TestModeReadsOnly ==
  /\ st_test # NotParsed
       => /\ \A i \in 1..Len(st_test.evs) : st_test.evs[i].op \notin MutatingOps \cup {"set_cmt"}
          /\ ~st_test.renamed
  /\ (st_test # NotParsed /\ st_live # NotParsed)
       => /\ MemReads(st_test.evs) = MemReads(st_live.evs)
          /\ StructFields(st_test) = StructFields(st_live)

\* a record with a name was parsed in both modes, and the live parse renamed a function
C8_Witness ==
  /\ st_test # NotParsed /\ st_live # NotParsed
  /\ st_test.name # <<>> /\ st_live.renamed
  /\ Len(MemReads(st_test.evs)) = 10

\* block k (from 1) of runtime_schedinit, read from the image alone: its first
\* instruction, the length stored at the matched address and the bytes the pointer
\* before it leads to
VerLen(k) == ToNat(Stored(insns[flow.blocks[k].start_ea].v0, ADDR_SZ))
VerBytes(k) ==
  get_bytes(ToNat(Stored(insns[flow.blocks[k].start_ea].v0 - ADDR_SZ, ADDR_SZ)), VerLen(k))

\* the candidate of block k may be accepted
Acceptable(k) ==
  /\ IsVersionStore(insns[flow.blocks[k].start_ea])
  /\ VerLen(k) \in 5..9
  /\ VerBytes(k) # NoBytes /\ ~DecodeRaises(VerBytes(k))
  /\ StartsWith(DecodeIgnore(VerBytes(k)), T_go)

\* the version, once set, is that of an acceptable candidate among the blocks scanned
VersionAccepted ==
  GOVER # <<>>
    => \E k \in 1..Len(flow.blocks) :
         /\ k <= fc_idx /\ Acceptable(k)
         /\ GOVER = SubSeq(DecodeIgnore(VerBytes(k)), 3, Len(DecodeIgnore(VerBytes(k))))

\* C9: a candidate of get_goversion is accepted only when the length read is in [5,10)
\* and the decoded string starts with "go", and the version is then the string without
\* the prefix; a rejected candidate leaves the version as it was and the scan goes on
\* through every block; the run is never aborted.
C9_Claimed ==
  /\ VersionAccepted
  /\ pc # "raised"
  /\ (pc = "done" /\ flow.found) => fc_idx = Len(flow.blocks)

\* a candidate with a length in range and bytes that are no UTF-8 ended the scan
C9_Witness ==
  /\ pc = "raised" /\ exc = "UnicodeDecodeError"
  /\ fc_idx < Len(flow.blocks) /\ VerLen(fc_idx + 1) \in 5..9

\* C10: after a call that creates, types or renames a program item, auto_wait is called
\* before the next read of program memory or program state: no read is ever issued
\* between such a call and the barrier that follows it.
C10_BarrierBeforeRead == ~sync.stale

\* parse_hdr read the byte at offset 6 right after it typed the word at offset 4
C10_Witness ==
  /\ sync.stale /\ sync.at = Ev("get_wide_byte", ImageBase + 6, 1)
  /\ pc = "parse_funcs"

\* the order of the phases as the claim has it, and as Pclntbl.parse calls them
ClaimedOrder == <<"parse_hdr", "parse_funcs", "get_goroot", "parse_srcfile", "parse_func_pointer">>
CalledOrder == <<"parse_hdr", "parse_funcs", "get_goroot", "parse_func_pointer", "parse_srcfile">>

\* C11, as stated: in every complete run of Pclntbl.parse the phases are entered once
\* each and in the order header, function table, install root, source-file table,
\* function-pointer correlation: the source files come before the correlator.
C11_Claimed == pc = "done" => started = ClaimedOrder

\* C11, amended: the phases entered so far are always a prefix of the order header,
\* function table, install root, function-pointer correlation, source-file table, each
\* entered at most once; a complete run has entered all five, so the source-file table
\* is decoded after install_root is assigned and after the correlator has finished.
C11_Amended ==
  /\ \E n \in 0..Len(CalledOrder) : started = SubSeq(CalledOrder, 1, n)
  /\ pc = "done" => started = CalledOrder
  /\ pc = "parse_srcfile_loop" => InSeq("get_goroot", started) /\ InSeq("parse_func_pointer", started)

\* a complete run that found an install root and listed a source file
C11_Witness ==
  /\ pc = "done" /\ started = CalledOrder
  /\ pclntbl.goroot # <<>> /\ pclntbl.srcfiles # <<>>

\* the operand types of a memory operand: direct, base and index, base and displacement
MemOperand == {2, 3, 4}

\* the return block the claim has get_goroot use: the first whose first instruction has
\* a memory operand first; 0 when there is none
ClaimedBlock ==
  LET ret_cbs == find_ret_cb(flow.blocks)
      fit == SelectSeq(ret_cbs, LAMBDA i : insns[flow.blocks[i].start_ea].t0 \in MemOperand)
  IN  IF fit = <<>> THEN 0 ELSE fit[1]

\* the block get_goroot used is the one of the claim
BlockAsClaimed(g) == g.blk = ClaimedBlock

\* every instruction whose second operand get_goroot looked at lies in the block used
ScanInsideBlock(g) ==
  \A a \in g.seen : flow.blocks[g.blk].start_ea <= a /\ a < flow.blocks[g.blk].end_ea

\* the pointer and the length are those of the first instruction after the first of the
\* block used, and inside it, whose second operand is a direct memory reference or an
\* immediate; with no such instruction both are left zero
ValuesAsClaimed(g) ==
  LET blk == flow.blocks[g.blk]
      ptr_val == insns[blk.start_ea].v1
      hits == {a \in DOMAIN insns : /\ blk.start_ea < a /\ a < blk.end_ea
                                    /\ insns[a].t1 \in {2, 5}}
      first == CHOOSE a \in hits : \A b \in hits : a <= b
  IN  IF hits = {} THEN g.addr = 0 /\ g.len = 0
      ELSE IF insns[first].t1 = 2
      THEN /\ g.addr = ToNat(Stored(ptr_val, ADDR_SZ))
           /\ g.len = ToNat(Stored(ptr_val + ADDR_SZ, ADDR_SZ))
      ELSE g.addr = ptr_val /\ g.len = insns[first].v1

\* C12: get_goroot uses the return block whose first instruction has a memory operand,
\* not a register, as its first operand; it looks at the second operand of the
\* instructions of that block only, and the first that is a direct memory reference
\* gives pointer = word at ptr_val and length = word at ptr_val + pointer size, the
\* first that is an immediate gives pointer = ptr_val and length = the immediate.
C12_Claimed ==
  (InSeq("get_goroot", started) /\ flow.found)
    => \A g \in {GetGoroot} :
         /\ BlockAsClaimed(g)
         /\ g.blk # 0 => ScanInsideBlock(g) /\ ValuesAsClaimed(g)

\* the scan left the block used and took the length from the instruction at its end
C12_Witness ==
  /\ InSeq("get_goroot", started) /\ flow.found
  /\ \E g \in {GetGoroot} :
       /\ g.blk # 0 /\ flow.blocks[g.blk].end_ea \in g.seen
       /\ g.len = insns[flow.blocks[g.blk].end_ea].v1 /\ g.len # 0

\* the calls of one kind among the calls issued
CallsOf(evs, ops) == SelectSeq(evs, LAMBDA e : e.op \in ops)

\* C13: for forced_addr_sz 2, 4 or 8 and ADDR_SZ 4 or 8, read_mem returns the value of
\* exactly forced_addr_sz bytes at the address: it issues one read, of that width, and
\* when not read-only it types exactly that many bytes as data; so a read forced to 8
\* bytes reads 8 bytes also when ADDR_SZ is 4.
C13_Claimed ==
  (rm_ret # NotRead /\ rm_forced \in {2, 4, 8})
    => /\ rm_ret.value = Stored(rm_addr, rm_forced)
       /\ CallsOf(rm_ret.evs, {"get_wide_word", "get_wide_dword", "get_qword"})
            = <<Ev(ReadOp(rm_forced), rm_addr, rm_forced)>>
       /\ CallsOf(rm_ret.evs, {"create_data"})
            = IF rm_read_only THEN <<>> ELSE <<Ev("create_data", rm_addr, rm_forced)>>

\* under ADDR_SZ = 4 a read forced to 8 bytes read and typed 4, and returned the low
\* half of a value whose high half is not zero
C13_Witness ==
  /\ rm_ret # NotRead /\ rm_forced = 8 /\ ADDR_SZ = 4 /\ ~rm_read_only
  /\ CallsOf(rm_ret.evs, {"create_data"}) = <<Ev("create_data", rm_addr, 4)>>
  /\ CallsOf(rm_ret.evs, {"get_wide_dword"}) = <<Ev("get_wide_dword", rm_addr, 4)>>
  /\ rm_ret.value = Stored(rm_addr, 4) /\ rm_ret.value # Stored(rm_addr, 8)

====
